---- MODULE Spec2Model ----
(***************************************************************************)
(* Hexagonal arena grid of the HexGrid component: the MapFactory class     *)
(* (createHexGrid, updateGrid) and the React effect that drives it.        *)
(*                                                                         *)
(* The repository holds three revisions of the component.  They share the  *)
(* classification code and differ in the layers they keep and the scene    *)
(* objects they build:                                                     *)
(*   "HexGrid"   src/client/src/components/HexGrid.tsx                     *)
(*   "part_001"  src/unnamed/part_001                                      *)
(*   "part_002"  src/unnamed/part_002                                      *)
(*                                                                         *)
(* Scale factors are the multiples of 0.01 the control panel steps in; a   *)
(* factor f is held as the integer 100*f, and so is every product          *)
(* radius * factor before Math.floor is applied to it.                     *)
(***************************************************************************)
EXTENDS Integers, Sequences, FiniteSets, TLC

VARIABLES revision, phase, props, hexGridRef, scene, layers, resolved, error,
          live, lastOp, prev

vars ==
    <<revision, phase, props, hexGridRef, scene, layers, resolved, error, live, lastOp, prev>>

(***************************************************************************)
(* Bounds of the model.                                                    *)
(***************************************************************************)
\* largest gridRadius of the lifecycle specification
MaxRadius == 2
\* largest gridRadius of the single-pass specification
MaxGenRadius == 4
\* number of scene objects other components may add
MaxForeign == 1
\* largest gridRadius of the border colour specification
MaxColorRadius == 2

(***************************************************************************)
(* Program constants.                                                      *)
(***************************************************************************)
\* one unit of a scale factor is 1/Scale (the sliders step by 0.01)
Scale == 100
\* radius * 0.5, the fallback of arenaRadius, in units of 1/Scale
ArenaFallback == 50
\* radius * 0.3, the fallback of baseRadius, in units of 1/Scale
BaseFallback == 30
\* the literal 2, the fallback of pathWidth, in units of 1/Scale
PathFallback == 200
\* length of the baseColors array
NumBaseColors == 3

Revisions == {"HexGrid", "part_001", "part_002"}

(***************************************************************************)
(* Arithmetic helpers.                                                     *)
(***************************************************************************)
Abs(x) == IF x < 0 THEN -x ELSE x

Max(a, b) == IF a >= b THEN a ELSE b

Min(a, b) == IF a <= b THEN a ELSE b

\* Math.floor of a value held in units of 1/Scale
\* Floor that rounds to the nearest integer
Floor_Round(x) == (x + Scale \div 2) \div Scale

Floor(x) == x \div Scale

\* JsOr as the nullish a ?? b would behave on numbers: 0 keeps a
JsOr_Nullish(a, b) == a

\* JsOr with the fallback taken whenever Math.floor(a) is 0
JsOr_FloorZero(a, b) == IF Floor(a) # 0 THEN a ELSE b

\* JavaScript a || b on numbers: a when a is truthy (non-zero), else b
JsOr(a, b) == IF a # 0 THEN a ELSE b

\* Math.max(Math.abs(dq), Math.abs(dr), Math.abs(ds)) with ds = dq + dr
HexDist(dq, dr) == Max(Max(Abs(dq), Abs(dr)), Abs(dq + dr))

_calculateHexGridCellCount(radius) == 3 * radius * (radius + 1) + 1

(***************************************************************************)
(* createHexGrid: the resolved radii.                                      *)
(***************************************************************************)
arenaRadiusOf(cfg) ==
    Floor(JsOr(cfg.gridRadius * cfg.arenaScaleFactor, cfg.gridRadius * ArenaFallback))

baseRadiusOf(cfg) ==
    Floor(JsOr(cfg.gridRadius * cfg.baseScaleFactor, cfg.gridRadius * BaseFallback))

pathWidthOf(cfg) ==
    Floor(JsOr(cfg.gridRadius * cfg.pathScaleFactor, PathFallback))

Resolve(cfg) ==
    [radius      |-> cfg.gridRadius,
     arenaRadius |-> arenaRadiusOf(cfg),
     baseRadius  |-> baseRadiusOf(cfg),
     pathWidth   |-> pathWidthOf(cfg)]

(***************************************************************************)
(* createHexGrid: the three membership tests.                              *)
(***************************************************************************)
isInArena(q, r, R) == HexDist(q, r) <= R.arenaRadius

\* basePositions with its second and third entry exchanged
basePositions_Exchanged(radius) ==
    << [q |-> radius, r |-> -radius],
       [q |-> 0, r |-> radius],
       [q |-> -radius, r |-> 0] >>

basePositions(radius) ==
    << [q |-> radius, r |-> -radius],
       [q |-> -radius, r |-> 0],
       [q |-> 0, r |-> radius] >>

RECURSIVE isInBaseFrom_Strict(_, _, _, _)
\* isInBaseFrom with the comparison dist < baseRadius
isInBaseFrom_Strict(i, q, r, R) ==
    IF i >= Len(basePositions(R.radius))
    THEN [isBase |-> FALSE, baseIndex |-> -1]
    ELSE LET base == basePositions(R.radius)[i + 1]
             dist == HexDist(q - base.q, r - base.r)
         IN  IF dist < R.baseRadius
             THEN [isBase |-> TRUE, baseIndex |-> i]
             ELSE isInBaseFrom_Strict(i + 1, q, r, R)

RECURSIVE isInBaseFrom_LastMatch(_, _, _, _)
\* isInBaseFrom without the return inside the loop: a later match replaces
\* an earlier one
isInBaseFrom_LastMatch(i, q, r, R) ==
    IF i >= Len(basePositions(R.radius))
    THEN [isBase |-> FALSE, baseIndex |-> -1]
    ELSE LET base == basePositions(R.radius)[i + 1]
             dist == HexDist(q - base.q, r - base.r)
             later == isInBaseFrom_LastMatch(i + 1, q, r, R)
         IN  IF later.isBase
             THEN later
             ELSE IF dist <= R.baseRadius
             THEN [isBase |-> TRUE, baseIndex |-> i]
             ELSE later

RECURSIVE isInBaseFrom(_, _, _, _)
\* the for loop of isInBase from index i (0-based) on
isInBaseFrom(i, q, r, R) ==
    IF i >= Len(basePositions(R.radius))
    THEN [isBase |-> FALSE, baseIndex |-> -1]
    ELSE LET base == basePositions(R.radius)[i + 1]
             dist == HexDist(q - base.q, r - base.r)
         IN  IF dist <= R.baseRadius
             THEN [isBase |-> TRUE, baseIndex |-> i]
             ELSE isInBaseFrom(i + 1, q, r, R)

isInBase(q, r, R) == isInBaseFrom(0, q, r, R)

paths(radius) ==
    << [start |-> [q |-> radius, r |-> -radius], step |-> [dq |-> -1, dr |-> 1]],
       [start |-> [q |-> -radius, r |-> 0],      step |-> [dq |-> 1, dr |-> 0]],
       [start |-> [q |-> 0, r |-> radius],       step |-> [dq |-> 0, dr |-> -1]] >>

\* WalkGuard without the test for the origin
WalkGuard_NoOriginStop(currentQ, currentR, radius) ==
    /\ Abs(currentQ) <= radius
    /\ Abs(currentR) <= radius

\* the guard of the while loop of isOnPath
WalkGuard(currentQ, currentR, radius) ==
    /\ ~(currentQ = 0 /\ currentR = 0)
    /\ Abs(currentQ) <= radius
    /\ Abs(currentR) <= radius

RECURSIVE WalkHits_StrictWidth(_, _, _, _, _, _)
\* WalkHits with the comparison dist < pathWidth
WalkHits_StrictWidth(path, currentQ, currentR, q, r, R) ==
    IF WalkGuard(currentQ, currentR, R.radius)
    THEN IF HexDist(q - currentQ, r - currentR) < R.pathWidth
         THEN TRUE
         ELSE WalkHits_StrictWidth(path, currentQ + path.step.dq, currentR + path.step.dr,
                                   q, r, R)
    ELSE FALSE

RECURSIVE WalkHits(_, _, _, _, _, _)
\* the while loop of isOnPath for one path, from the point (currentQ, currentR)
WalkHits(path, currentQ, currentR, q, r, R) ==
    IF WalkGuard(currentQ, currentR, R.radius)
    THEN IF HexDist(q - currentQ, r - currentR) <= R.pathWidth
         THEN TRUE
         ELSE WalkHits(path, currentQ + path.step.dq, currentR + path.step.dr, q, r, R)
    ELSE FALSE

RECURSIVE WalkedPoints(_, _, _, _)
\* the points the while loop of isOnPath takes as (currentQ, currentR) for
\* one path when no point is within pathWidth of the tested cell, in order
WalkedPoints(path, currentQ, currentR, radius) ==
    IF WalkGuard(currentQ, currentR, radius)
    THEN <<[q |-> currentQ, r |-> currentR]>>
             \o WalkedPoints(path, currentQ + path.step.dq, currentR + path.step.dr, radius)
    ELSE <<>>

isOnPath(q, r, R) ==
    \E i \in 1..Len(paths(R.radius)) :
        LET path == paths(R.radius)[i]
        IN  WalkHits(path, path.start.q, path.start.r, q, r, R)

(***************************************************************************)
(* createHexGrid: the enumeration double loop.                             *)
(***************************************************************************)
RECURSIVE RowFrom(_, _, _)
\* the inner loop for one q, from r on
RowFrom(q, r, radius) ==
    IF r <= Min(radius, -q + radius)
    THEN <<[q |-> q, r |-> r]>> \o RowFrom(q, r + 1, radius)
    ELSE <<>>

RECURSIVE EnumFrom_NoLowerClip(_, _)
\* EnumFrom with the inner loop started at -radius for every q
EnumFrom_NoLowerClip(q, radius) ==
    IF q <= radius
    THEN RowFrom(q, -radius, radius) \o EnumFrom_NoLowerClip(q + 1, radius)
    ELSE <<>>

RECURSIVE EnumFrom(_, _)
\* the outer loop from q on
EnumFrom(q, radius) ==
    IF q <= radius
    THEN RowFrom(q, Max(-radius, -q - radius), radius) \o EnumFrom(q + 1, radius)
    ELSE <<>>

\* the coordinates in the order the double loop visits them
EnumerateCells(radius) == EnumFrom(-radius, radius)

(***************************************************************************)
(* createHexGrid: the layers and the classification chain.                 *)
(***************************************************************************)
\* the names of the layers array, in array order
LayerNames(rev) ==
    IF rev = "part_002"
    THEN <<"paths", "bases", "arena">>
    ELSE <<"empty", "paths", "bases", "arena">>

\* the layers array before the enumeration: every cells list empty
EmptyLayers(rev) ==
    [n \in {LayerNames(rev)[i] : i \in 1..Len(LayerNames(rev))} |-> <<>>]

\* the resolved colours, by name
baseColors == <<"baseColors0", "baseColors1", "baseColors2">>

\* the cell object literal { q, r, position, color, baseIndex }; position is a
\* function of (q, r) alone and is left out
CellOf(q, r, color, baseIndex) ==
    [q |-> q, r |-> r, color |-> color, baseIndex |-> baseIndex]

\* layers[k].cells.push(cell), k the index of the layer called name
Push(name, cell) == [layer |-> name, cell |-> cell]

\* PlaceCell with the arena test ahead of the base test
PlaceCell_ArenaFirst(rev, q, r, R) ==
    LET baseCheck == isInBase(q, r, R)
    IN  IF isInArena(q, r, R)
        THEN <<Push("arena", CellOf(q, r, "arenaColor", -1))>>
        ELSE IF baseCheck.isBase
        THEN <<Push("bases", CellOf(q, r, baseColors[baseCheck.baseIndex + 1],
                                    IF rev = "part_002" THEN baseCheck.baseIndex ELSE -1))>>
        ELSE IF isOnPath(q, r, R)
        THEN <<Push("paths", CellOf(q, r, "pathColor", -1))>>
        ELSE IF rev # "part_002"
        THEN <<Push("empty", CellOf(q, r, "mapColor", -1))>>
        ELSE <<>>

\* PlaceCell with three independent ifs in place of the else-if chain
PlaceCell_NoElse(rev, q, r, R) ==
    LET baseCheck == isInBase(q, r, R)
        toBases == IF baseCheck.isBase
                   THEN <<Push("bases", CellOf(q, r, baseColors[baseCheck.baseIndex + 1],
                                IF rev = "part_002" THEN baseCheck.baseIndex ELSE -1))>>
                   ELSE <<>>
        toArena == IF isInArena(q, r, R)
                   THEN <<Push("arena", CellOf(q, r, "arenaColor", -1))>>
                   ELSE <<>>
        toPaths == IF isOnPath(q, r, R)
                   THEN <<Push("paths", CellOf(q, r, "pathColor", -1))>>
                   ELSE <<>>
        pushed == toBases \o toArena \o toPaths
    IN  IF pushed = <<>> /\ rev # "part_002"
        THEN <<Push("empty", CellOf(q, r, "mapColor", -1))>>
        ELSE pushed

\* PlaceCell with the first base colour for the cells of every anchor
PlaceCell_OneBaseColor(rev, q, r, R) ==
    LET baseCheck == isInBase(q, r, R)
    IN  IF baseCheck.isBase
        THEN <<Push("bases", CellOf(q, r, baseColors[1],
                                    IF rev = "part_002" THEN baseCheck.baseIndex ELSE -1))>>
        ELSE IF isInArena(q, r, R)
        THEN <<Push("arena", CellOf(q, r, "arenaColor", -1))>>
        ELSE IF isOnPath(q, r, R)
        THEN <<Push("paths", CellOf(q, r, "pathColor", -1))>>
        ELSE IF rev # "part_002"
        THEN <<Push("empty", CellOf(q, r, "mapColor", -1))>>
        ELSE <<>>

\* PlaceCell with the path test ahead of the arena test
PlaceCell_PathFirst(rev, q, r, R) ==
    LET baseCheck == isInBase(q, r, R)
    IN  IF baseCheck.isBase
        THEN <<Push("bases", CellOf(q, r, baseColors[baseCheck.baseIndex + 1],
                                    IF rev = "part_002" THEN baseCheck.baseIndex ELSE -1))>>
        ELSE IF isOnPath(q, r, R)
        THEN <<Push("paths", CellOf(q, r, "pathColor", -1))>>
        ELSE IF isInArena(q, r, R)
        THEN <<Push("arena", CellOf(q, r, "arenaColor", -1))>>
        ELSE IF rev # "part_002"
        THEN <<Push("empty", CellOf(q, r, "mapColor", -1))>>
        ELSE <<>>

\* the body of the enumeration loop, the if / else-if chain for one cell:
\* the pushes it makes (one, or none where part_002 has no else branch)
PlaceCell(rev, q, r, R) ==
    LET baseCheck == isInBase(q, r, R)
        baseTaken ==
            IF rev = "part_002"
            THEN /\ baseCheck.isBase
                 /\ baseCheck.baseIndex >= 0
                 /\ baseCheck.baseIndex < NumBaseColors
            ELSE baseCheck.isBase
    IN  IF baseTaken
        THEN <<Push("bases", CellOf(q, r, baseColors[baseCheck.baseIndex + 1],
                                    IF rev = "part_002" THEN baseCheck.baseIndex ELSE -1))>>
        ELSE IF isInArena(q, r, R)
        THEN <<Push("arena", CellOf(q, r, "arenaColor", -1))>>
        ELSE IF isOnPath(q, r, R)
        THEN <<Push("paths", CellOf(q, r, "pathColor", -1))>>
        ELSE IF rev # "part_002"
        THEN <<Push("empty", CellOf(q, r, "mapColor", -1))>>
        ELSE <<>>

\* the cells pushed to the layer called name, in the order of the pushes
CellsPushed(pushes, name) ==
    LET hits == SelectSeq(pushes, LAMBDA ps : \E k \in 1..Len(ps) : ps[k].layer = name)
    IN  [i \in 1..Len(hits) |->
            LET k == CHOOSE k \in 1..Len(hits[i]) : hits[i][k].layer = name
            IN  hits[i][k].cell]

\* the layers array after the enumeration loop
FillLayers(rev, cfg) ==
    LET R == Resolve(cfg)
        cells == EnumerateCells(cfg.gridRadius)
        pushes == [i \in 1..Len(cells) |-> PlaceCell(rev, cells[i].q, cells[i].r, R)]
    IN  [n \in DOMAIN EmptyLayers(rev) |-> CellsPushed(pushes, n)]

(***************************************************************************)
(* createHexGrid: the scene objects built from the layers.                 *)
(***************************************************************************)
\* one unit of a colour channel is 1/ChannelScale (mapColor is 0.533 per channel)
ChannelScale == 1000

Color(r, g, b) == [r |-> r, g |-> g, b |-> b]

\* new THREE.Color(0x000000) and new THREE.Color(0xffffff)
Black == Color(0, 0, 0)
White == Color(ChannelScale, ChannelScale, ChannelScale)

\* the colour props, which the component is rendered without: their defaults
ColorValue(name) ==
    CASE name = "mapColor" -> Color(533, 533, 533)
      [] name = "arenaColor" -> Color(ChannelScale, ChannelScale, 0)
      [] name = "pathColor" -> Color(ChannelScale, ChannelScale, ChannelScale)
      [] name = "baseColors0" -> Color(ChannelScale, 0, 0)
      [] name = "baseColors1" -> Color(0, ChannelScale, 0)
      [] name = "baseColors2" -> Color(0, 0, ChannelScale)

\* THREE.Color.lerp(color, alpha): this.r += (color.r - this.r) * alpha, and
\* so for g and b.  alpha is in units of 1/Scale, the result in units of
\* 1/(ChannelScale * Scale)
lerp(this, color, alpha) ==
    [r |-> this.r * Scale + (color.r - this.r) * alpha,
     g |-> this.g * Scale + (color.g - this.g) * alpha,
     b |-> this.b * Scale + (color.b - this.b) * alpha]

\* borderColorOf with the two targets exchanged
borderColorOf_Swapped(color, borderColorFactor) ==
    IF borderColorFactor < 0
    THEN lerp(color, White, -borderColorFactor)
    ELSE lerp(color, Black, borderColorFactor)

\* the border colour of a fill colour: the clone, then the lerp towards black
\* or towards white
borderColorOf(color, borderColorFactor) ==
    IF borderColorFactor < 0
    THEN lerp(color, Black, -borderColorFactor)
    ELSE lerp(color, White, borderColorFactor)

\* a border colour as a scene object holds it; fill, the name of the colour
\* it was computed from, is kept beside it
BorderEntry(fill, cfg) ==
    [fill |-> fill, color |-> borderColorOf(ColorValue(fill), cfg.borderColorFactor)]

\* the border colours computed cell by cell from cell.color (lineColors of
\* HexGrid.tsx, where every cell adds at least the edge it shares with its
\* neighbour at q + 1; the instance colours of the border mesh of part_001)
CellBorderColors(cells, cfg) ==
    [i \in 1..Len(cells) |-> BorderEntry(cells[i].color, cfg)]

\* the border colour part_002 gives the geometry of a layer or of a base
GeometryBorderColors(name, baseIndex, cfg) ==
    IF name = "bases"
    THEN <<BorderEntry(baseColors[baseIndex + 1], cfg)>>
    ELSE IF name = "arena"
    THEN <<BorderEntry("arenaColor", cfg)>>
    ELSE <<BorderEntry("pathColor", cfg)>>

SceneObject(type, layer, part, baseIndex, cfg, instances, borderColors) ==
    [type |-> type, owner |-> "grid", layer |-> layer, part |-> part,
     baseIndex |-> baseIndex, cfg |-> cfg, age |-> 0, instances |-> instances,
     borderColors |-> borderColors]

\* baseCellsByColor[baseIndex] of part_002
baseCellsByColor(cells, baseIndex) ==
    SelectSeq(cells, LAMBDA cell : cell.baseIndex = baseIndex)

RECURSIVE BaseMeshesFrom(_, _, _)
\* baseCellsByColor.forEach of part_002, from baseIndex on
BaseMeshesFrom(baseIndex, cells, cfg) ==
    IF baseIndex >= 3
    THEN <<>>
    ELSE LET baseCells == baseCellsByColor(cells, baseIndex)
             mesh == IF Len(baseCells) = 0
                     THEN <<>>
                     ELSE <<SceneObject("InstancedMesh", "bases", "hex", baseIndex, cfg, baseCells,
                                        GeometryBorderColors("bases", baseIndex, cfg))>>
         IN  mesh \o BaseMeshesFrom(baseIndex + 1, cells, cfg)

\* the callback of layers.forEach for one layer: the objects it adds to the scene
LayerObjects(rev, name, cells, cfg) ==
    IF Len(cells) = 0
    THEN <<>>
    ELSE IF rev = "HexGrid"
    THEN << SceneObject("InstancedMesh", name, "hex", -1, cfg, cells, <<>>),
            SceneObject("LineSegments", name, "lines", -1, cfg, <<>>,
                        CellBorderColors(cells, cfg)) >>
    ELSE IF rev = "part_001"
    THEN << SceneObject("InstancedMesh", name, "fill", -1, cfg, cells, <<>>),
            SceneObject("InstancedMesh", name, "border", -1, cfg, cells,
                        CellBorderColors(cells, cfg)) >>
    ELSE IF name = "bases"
    THEN BaseMeshesFrom(0, cells, cfg)
    ELSE << SceneObject("InstancedMesh", name, "hex", -1, cfg, cells,
                        GeometryBorderColors(name, -1, cfg)) >>

RECURSIVE ObjectsFrom(_, _, _, _)
\* layers.forEach from the i-th layer on
ObjectsFrom(rev, ls, i, cfg) ==
    IF i > Len(LayerNames(rev))
    THEN <<>>
    ELSE LayerObjects(rev, LayerNames(rev)[i], ls[LayerNames(rev)[i]], cfg)
             \o ObjectsFrom(rev, ls, i + 1, cfg)

\* the objects of the scene that a grid pass created get one pass older
Aged(scn) ==
    [i \in 1..Len(scn) |->
        IF scn[i].owner = "grid" THEN [scn[i] EXCEPT !.age = @ + 1] ELSE scn[i]]

(***************************************************************************)
(* The geometries and materials of a pass.                                 *)
(***************************************************************************)
\* a geometry or material by the name of the local that holds it; layer and
\* index tell apart the ones built once per layer or once per base colour
Resource(name, layer, index) == [name |-> name, layer |-> layer, index |-> index]

\* the geometries and materials createHexGrid constructs whatever the layers hold
TemplateResources(rev) ==
    IF rev = "HexGrid"
    THEN {Resource("hexGeometry", "all", -1), Resource("sharedMaterial", "all", -1)}
    ELSE IF rev = "part_001"
    THEN {Resource("hexFillGeometry", "all", -1), Resource("hexBorderGeometry", "all", -1),
          Resource("fillMaterial", "all", -1), Resource("borderMaterial", "all", -1)}
    ELSE {Resource("grayHexGeometry", "empty", -1), Resource("pathHexGeometry", "paths", -1),
          Resource("arenaHexGeometry", "arena", -1), Resource("material", "all", -1)}
             \cup {Resource("baseHexGeometries", "bases", i) : i \in 0..(NumBaseColors - 1)}

\* child.geometry of an object a pass built
GeometryOf(rev, child) ==
    IF rev = "HexGrid"
    THEN IF child.type = "LineSegments"
         THEN Resource("lineGeometry", child.layer, -1)
         ELSE Resource("hexGeometry", "all", -1)
    ELSE IF rev = "part_001"
    THEN IF child.part = "border"
         THEN Resource("hexBorderGeometry", "all", -1)
         ELSE Resource("hexFillGeometry", "all", -1)
    ELSE IF child.layer = "bases"
    THEN Resource("baseHexGeometries", "bases", child.baseIndex)
    ELSE IF child.layer = "arena"
    THEN Resource("arenaHexGeometry", "arena", -1)
    ELSE Resource("pathHexGeometry", "paths", -1)

\* child.material of an object a pass built
MaterialOf(rev, child) ==
    IF rev = "HexGrid"
    THEN IF child.type = "LineSegments"
         THEN Resource("lineMaterial", child.layer, -1)
         ELSE Resource("sharedMaterial", "all", -1)
    ELSE IF rev = "part_001"
    THEN IF child.part = "border"
         THEN Resource("borderMaterial", "all", -1)
         ELSE Resource("fillMaterial", "all", -1)
    ELSE Resource("material", "all", -1)

\* the geometries and materials a pass constructs: the templates, and what
\* the objects it builds hold (in HexGrid.tsx a line geometry and a line
\* material per non-empty layer)
CreatedBy(rev, objects) ==
    TemplateResources(rev)
        \cup {GeometryOf(rev, objects[i]) : i \in 1..Len(objects)}
        \cup {MaterialOf(rev, objects[i]) : i \in 1..Len(objects)}

\* a geometry or material that was constructed age passes ago and has not
\* been disposed
Live(resource, age) == [resource |-> resource, age |-> age]

\* the undisposed geometries and materials after one more pass; ages of two
\* passes and more are not told apart
AfterPass(liveSet, created) ==
    {Live(x.resource, IF x.age >= 2 THEN 2 ELSE x.age + 1) : x \in liveSet}
        \cup {Live(c, 0) : c \in created}

\* what a pass raises: the constructor and createHexGrid test nothing of the
\* configuration and have no throw statement
NoError == "none"

\* createHexGrid that classifies with the configuration of the batches it
\* finds in the scene, when it finds any
createHexGrid_SceneDependent(rev, scn, cfg) ==
    LET found == {i \in 1..Len(scn) : scn[i].owner = "grid"}
        used == IF found = {}
                THEN cfg
                ELSE scn[CHOOSE i \in found : \A j \in found : i <= j].cfg
        ls == FillLayers(rev, used)
        objects == ObjectsFrom(rev, ls, 1, cfg)
    IN  [scene |-> Aged(scn) \o objects, layers |-> ls,
         resolved |-> Resolve(used), error |-> NoError,
         created |-> CreatedBy(rev, objects)]

\* createHexGrid of the factory of configuration cfg on the scene scn
createHexGrid(rev, scn, cfg) ==
    LET ls == FillLayers(rev, cfg)
        objects == ObjectsFrom(rev, ls, 1, cfg)
    IN  [scene |-> Aged(scn) \o objects, layers |-> ls,
         resolved |-> Resolve(cfg), error |-> NoError,
         created |-> CreatedBy(rev, objects)]

(***************************************************************************)
(* updateGrid.                                                             *)
(***************************************************************************)
\* IsRemoved that matches the line segments only
IsRemoved_LinesOnly(rev, child) == child.type = "LineSegments"

\* the filter of updateGrid
IsRemoved(rev, child) ==
    \/ child.type = "InstancedMesh"
    \/ rev # "part_002" /\ child.type = "LineSegments"

\* the geometries and materials of the grid that child.geometry.dispose() and
\* child.material.dispose() reach: the ones the removed children hold
DisposedBy(rev, scn) ==
    UNION {{Live(GeometryOf(rev, scn[i]), scn[i].age), Live(MaterialOf(rev, scn[i]), scn[i].age)} :
              i \in {j \in 1..Len(scn) : IsRemoved(rev, scn[j]) /\ scn[j].owner = "grid"}}

updateGrid(rev, scn, factory) ==
    LET kept == SelectSeq(scn, LAMBDA child : ~IsRemoved(rev, child))
        made == createHexGrid(rev, kept, factory.cfg)
    IN  [scene |-> made.scene, layers |-> made.layers, resolved |-> made.resolved,
         error |-> made.error, disposed |-> DisposedBy(rev, scn), created |-> made.created,
         factory |-> [factory EXCEPT !.cellCount = _calculateHexGridCellCount(factory.cfg.gridRadius)]]

(***************************************************************************)
(* The configurations the component is given.                              *)
(***************************************************************************)
\* the default of borderColorFactor, -0.3, in units of 1/Scale
DefaultBorderColorFactor == -30

Config(radius, base, path, arena) ==
    [gridRadius |-> radius, baseScaleFactor |-> base,
     pathScaleFactor |-> path, arenaScaleFactor |-> arena,
     borderColorFactor |-> DefaultBorderColorFactor]

\* the configuration of an object no grid pass created, and the props before
\* the first render; its radius is none a configuration below has
NoConfig == Config(-2, 0, 0, 0)


\* scale factors (in units of 1/Scale) of the single-pass specification
GenFactors == {0, 2, 25, 50, 100}

\* gridRadius is typed number: the props admit a negative radius, which the
\* component passes on to the factory as it is
\* The configurations of the lifecycle specification: base scale factor 0.5,
\* path scale factor 0.02 and arena scale factor 0.02 with every radius, and
\* arena scale factor 0.5 with the largest radius.
Configs ==
    {Config(radius, 50, 2, 2) : radius \in (-1)..MaxRadius}
        \cup {Config(MaxRadius, 50, 2, 50)}

GenConfigs ==
    {Config(radius, base, path, arena) :
        radius \in (-1)..MaxGenRadius, base \in GenFactors,
        path \in GenFactors, arena \in GenFactors}

\* the values of borderColorFactor (in units of 1/Scale): its slider runs
\* from -1 to 1 in steps of 0.1
BorderFactors == {10 * k : k \in (-10)..10}

\* the configurations of the border colour specification: the default scale
\* factors, every border colour factor
ColorConfigs ==
    {[Config(radius, 25, 2, 30) EXCEPT !.borderColorFactor = f] :
        radius \in 0..MaxColorRadius, f \in BorderFactors}

\* the types of the objects other components add to the scene
ForeignTypes == {"Mesh", "InstancedMesh", "LineSegments"}

ForeignObject(type) ==
    [type |-> type, owner |-> "other", layer |-> "none", part |-> "none",
     baseIndex |-> -1, cfg |-> NoConfig, age |-> 0, instances |-> <<>>,
     borderColors |-> <<>>]

\* the locals arenaRadius, baseRadius and pathWidth before any pass ran
NoResolved == [radius |-> -1, arenaRadius |-> -1, baseRadius |-> -1, pathWidth |-> -1]

\* hexGridRef.current: null, or the MapFactory the constructor built
NoFactory == [isSet |-> FALSE, cfg |-> NoConfig, cellCount |-> 0]

MapFactory(cfg) ==
    [isSet |-> TRUE, cfg |-> cfg,
     cellCount |-> _calculateHexGridCellCount(cfg.gridRadius)]

(***************************************************************************)
(* The effect of the component: its run and its cleanup.                   *)
(***************************************************************************)
\* the effect body: new MapFactory(scene), then createHexGrid()
EffectRun(rev, scn, cfg) ==
    LET made == createHexGrid(rev, scn, cfg)
    IN  [scene |-> made.scene, layers |-> made.layers, resolved |-> made.resolved,
         error |-> made.error, created |-> made.created, factory |-> MapFactory(cfg)]

\* the function the effect returns: hexGridRef.current.updateGrid() when set
EffectCleanup(rev, scn, ls, res, factory) ==
    IF factory.isSet
    THEN updateGrid(rev, scn, factory)
    ELSE [scene |-> scn, layers |-> ls, resolved |-> res, error |-> NoError,
          disposed |-> {}, created |-> {}, factory |-> factory]

\* the undisposed geometries and materials after the cleanup
AfterCleanup(liveSet, factory, clean) ==
    IF factory.isSet
    THEN AfterPass(liveSet \ clean.disposed, clean.created)
    ELSE liveSet

Init ==
    /\ revision \in Revisions
    /\ phase = "unmounted"
    /\ props = NoConfig
    /\ hexGridRef = NoFactory
    /\ scene = <<>>
    /\ layers = EmptyLayers(revision)
    /\ resolved = NoResolved
    /\ error = NoError
    /\ live = {}
    /\ lastOp = "init"
    /\ prev = NoConfig

\* the component is mounted with configuration cfg: the effect runs
MountWith(cfg) ==
    /\ phase = "unmounted"
    /\ \E run \in {EffectRun(revision, scene, cfg)} :
           /\ scene' = run.scene
           /\ layers' = run.layers
           /\ resolved' = run.resolved
           /\ error' = run.error
           /\ live' = AfterPass(live, run.created)
           /\ hexGridRef' = run.factory
    /\ phase' = "mounted"
    /\ props' = cfg
    /\ prev' = props
    /\ lastOp' = "mount"
    /\ UNCHANGED revision

Mount == \E cfg \in Configs : MountWith(cfg)

\* the component renders again with configuration cfg: the cleanup of the
\* previous effect runs, then the effect runs.  The colour props default to
\* object literals that are new on every render, so the dependencies differ
\* on every render, also on one that leaves cfg as it was.
Regenerate ==
    /\ phase = "mounted"
    /\ \E clean \in {EffectCleanup(revision, scene, layers, resolved, hexGridRef)} :
       \E cfg \in Configs :
       \E run \in {EffectRun(revision, clean.scene, cfg)} :
           /\ scene' = run.scene
           /\ layers' = run.layers
           /\ resolved' = run.resolved
           /\ error' = IF clean.error # NoError THEN clean.error ELSE run.error
           /\ live' = AfterPass(AfterCleanup(live, hexGridRef, clean), run.created)
           /\ hexGridRef' = run.factory
           /\ props' = cfg
    /\ prev' = props
    /\ lastOp' = "regenerate"
    /\ UNCHANGED <<revision, phase>>

\* the component is unmounted: the cleanup of the effect runs
Dispose ==
    /\ phase = "mounted"
    /\ \E clean \in {EffectCleanup(revision, scene, layers, resolved, hexGridRef)} :
           /\ scene' = clean.scene
           /\ layers' = clean.layers
           /\ resolved' = clean.resolved
           /\ error' = clean.error
           /\ live' = AfterCleanup(live, hexGridRef, clean)
    /\ hexGridRef' = NoFactory
    /\ phase' = "unmounted"
    /\ prev' = props
    /\ lastOp' = "dispose"
    /\ UNCHANGED <<revision, props>>

\* another component adds an object of its own to the scene
AddForeign ==
    \E type \in ForeignTypes :
        /\ Cardinality({i \in 1..Len(scene) : scene[i].owner = "other"}) < MaxForeign
        /\ scene' = Append(scene, ForeignObject(type))
        /\ lastOp' = "foreign"
        /\ UNCHANGED <<revision, phase, props, hexGridRef, layers, resolved, error, live, prev>>

Next == Mount \/ Regenerate \/ Dispose \/ AddForeign

Spec == Init /\ [][Next]_vars

(***************************************************************************)
(* One generation pass on an empty scene, over a wider range of            *)
(* configurations.                                                         *)
(***************************************************************************)
Generate == \E cfg \in GenConfigs : MountWith(cfg)

GenNext == Generate

SpecGen == Init /\ [][GenNext]_vars

(***************************************************************************)
(* The resolution of the three radii alone, over every configuration the   *)
(* sliders of the control panel deliver.                                   *)
(***************************************************************************)
\* the range of the gridRadius slider (step 1)
GuiMinRadius == 5
GuiMaxRadius == 50

\* the values of the baseScaleFactor and arenaScaleFactor sliders, 0.1 to 0.5
\* in steps of 0.01, in units of 1/Scale
GuiScaleFactors == 10..50

\* the values of the pathScaleFactor slider, 0.01 to 0.1 in steps of 0.01
GuiPathFactors == 1..10

\* every radius with every value of each of the three sliders; beside a base
\* factor the arena factor takes the same value and the value 0.05 above it,
\* wrapped around in the slider's range, as the defaults 0.25 and 0.3 are
\* (each of the three radii is resolved from the radius and its own factor
\* alone)
GuiConfigs ==
    {Config(radius, base, path, 10 + ((base - 10 + shift) % 41)) :
        radius \in GuiMinRadius..GuiMaxRadius, base \in GuiScaleFactors,
        path \in GuiPathFactors, shift \in {0, 5}}

\* the first three statements of createHexGrid after the colours, for the
\* configuration the component is rendered with
ResolveRadii ==
    /\ lastOp = "init"
    /\ \E cfg \in GuiConfigs :
           /\ props' = cfg
           /\ resolved' = Resolve(cfg)
    /\ lastOp' = "resolve"
    /\ prev' = props
    /\ UNCHANGED <<revision, phase, hexGridRef, scene, layers, error, live>>

GuiNext == ResolveRadii

SpecGui == Init /\ [][GuiNext]_vars

(***************************************************************************)
(* One generation pass on an empty scene, over the border colour factors.  *)
(***************************************************************************)
GenerateColor == \E cfg \in ColorConfigs : MountWith(cfg)

ColorNext == GenerateColor

SpecColor == Init /\ [][ColorNext]_vars

(***************************************************************************)
(* Vocabulary of the properties.                                           *)
(***************************************************************************)
\* the coordinates of a list of cells
Coords(cells) == {[q |-> cells[i].q, r |-> cells[i].r] : i \in 1..Len(cells)}

\* the axial coordinates within hex distance radius of the origin
HexRange(radius) ==
    {c \in [q : (-radius)..radius, r : (-radius)..radius] : HexDist(c.q, c.r) <= radius}

\* the cells list of a layer of the last pass; empty when the revision has no such layer
LayerCells(name) == IF name \in DOMAIN layers THEN layers[name] ELSE <<>>

\* the coordinates the last pass put into some layer
Placed == UNION {Coords(layers[n]) : n \in DOMAIN layers}

\* the positions in scene.children of the objects a grid pass created
GridIndices == {i \in 1..Len(scene) : scene[i].owner = "grid"}

\* the meshes that hold one instance per cell (the border mesh of part_001
\* repeats the cells of its fill mesh)
CellMeshIndices ==
    {i \in GridIndices : scene[i].type = "InstancedMesh" /\ scene[i].part # "border"}

RECURSIVE SumInstances(_)
SumInstances(indices) ==
    IF indices = {}
    THEN 0
    ELSE LET i == CHOOSE j \in indices : TRUE
         IN  Len(scene[i].instances) + SumInstances(indices \ {i})

\* the cell lies within baseRadius of one of the three anchors
NearAnchor(c, R) ==
    \E anchor \in {[q |-> R.radius, r |-> -R.radius], [q |-> -R.radius, r |-> 0],
                   [q |-> 0, r |-> R.radius]} :
        HexDist(c.q - anchor.q, c.r - anchor.r) <= R.baseRadius

(***************************************************************************)
(* C1: after a regenerate to a smaller radius, the instanced cells of the  *)
(* grid batches in the scene number exactly the non-empty cells of the new *)
(* radius, and no batch of the prior radius remains.                       *)
(***************************************************************************)
C1_NoStaleBatches ==
    (lastOp = "regenerate" /\ props.gridRadius < prev.gridRadius) =>
        /\ \A i \in GridIndices : scene[i].cfg.gridRadius = props.gridRadius
        /\ SumInstances(CellMeshIndices)
             = Len(LayerCells("bases")) + Len(LayerCells("arena")) + Len(LayerCells("paths"))

(***************************************************************************)
(* C2: a cell within baseRadius of any of the three anchors is classified  *)
(* Base, whether or not it is also within arenaRadius of the origin or     *)
(* within pathWidth of a walked path point.                                *)
(***************************************************************************)
C2_BaseWins ==
    hexGridRef.isSet =>
        \A c \in HexRange(resolved.radius) :
            NearAnchor(c, resolved) =>
                /\ c \in Coords(LayerCells("bases"))
                /\ c \notin Coords(LayerCells("arena"))
                /\ c \notin Coords(LayerCells("paths"))
                /\ c \notin Coords(LayerCells("empty"))

C2_Witness ==
    /\ hexGridRef.isSet
    /\ \E c \in Coords(LayerCells("bases")) : isInArena(c.q, c.r, resolved)
    /\ \E c \in Coords(LayerCells("bases")) :
           ~isInArena(c.q, c.r, resolved) /\ isOnPath(c.q, c.r, resolved)

(***************************************************************************)
(* C3: for every radius r >= 0 the enumeration double loop visits each     *)
(* coordinate within hex distance r of the origin exactly once and no      *)
(* other, so it visits 3*r*(r+1)+1 coordinates, the value of cellCount.    *)
(***************************************************************************)
C3_EnumerationCount ==
    (hexGridRef.isSet /\ hexGridRef.cfg.gridRadius >= 0) =>
        LET radius == hexGridRef.cfg.gridRadius
            visited == EnumerateCells(radius)
        IN  /\ \A i, j \in 1..Len(visited) : i # j => visited[i] # visited[j]
            /\ {visited[i] : i \in 1..Len(visited)} = HexRange(radius)
            /\ Len(visited) = 3 * radius * (radius + 1) + 1
            /\ Len(visited) = hexGridRef.cellCount
            /\ Placed \subseteq HexRange(radius)
            /\ revision # "part_002" => Placed = HexRange(radius)

C3_Witness ==
    /\ hexGridRef.isSet
    /\ hexGridRef.cfg.gridRadius >= 2
    /\ hexGridRef.cellCount >= 19
    /\ Len(LayerCells("empty")) > 0

(***************************************************************************)
(* C4: one generation pass gives every enumerated cell exactly one of the  *)
(* regions Base, Arena, Path, Empty: the region groups are pairwise        *)
(* disjoint, their sizes sum to the enumerated cell count, and a cell      *)
(* placed by a higher-priority test is not placed again by a lower one.    *)
(* (part_002 keeps no list for Empty: its Empty cells are the enumerated   *)
(* cells that fail all three tests and are put in no layer.)               *)
(***************************************************************************)
C4_OneRegionPerCell ==
    hexGridRef.isSet =>
        LET range == HexRange(resolved.radius)
            unplaced == range \ Placed
            failsAll(c) == /\ ~NearAnchor(c, resolved)
                           /\ ~isInArena(c.q, c.r, resolved)
                           /\ ~isOnPath(c.q, c.r, resolved)
        IN  /\ \A n1, n2 \in DOMAIN layers :
                   n1 # n2 => Coords(layers[n1]) \cap Coords(layers[n2]) = {}
            /\ \A n \in DOMAIN layers : Cardinality(Coords(layers[n])) = Len(layers[n])
            /\ Placed \subseteq range
            /\ Len(LayerCells("bases")) + Len(LayerCells("arena")) + Len(LayerCells("paths"))
                 + Len(LayerCells("empty")) + Cardinality(unplaced)
                 = Len(EnumerateCells(resolved.radius))
            /\ revision # "part_002" => unplaced = {}
            /\ revision = "part_002" => \A c \in range : c \in unplaced <=> failsAll(c)
            /\ \A c \in Coords(LayerCells("empty")) : failsAll(c)

C4_Witness ==
    /\ hexGridRef.isSet
    /\ Len(LayerCells("bases")) > 0
    /\ Len(LayerCells("paths")) > 0
    /\ HexRange(resolved.radius) \ (Coords(LayerCells("bases")) \cup Coords(LayerCells("arena"))
                                      \cup Coords(LayerCells("paths"))) # {}
    /\ \E c \in Coords(LayerCells("arena")) : isOnPath(c.q, c.r, resolved)
    /\ \E c \in Coords(LayerCells("bases")) : isInArena(c.q, c.r, resolved)

(***************************************************************************)
(* C5: the grid batches in the scene between calls are always the complete *)
(* batch set of one configuration, the old or the new, never batches of    *)
(* two generation passes together.                                         *)
(***************************************************************************)
C5_NoMixedBatches ==
    \A i, j \in GridIndices : scene[i].age = scene[j].age

(***************************************************************************)
(* C6: after dispose (the effect cleanup at unmount) the scene contains no *)
(* InstancedMesh or LineSegments of the grid.                              *)
(***************************************************************************)
C6_DisposeReleasesAll ==
    lastOp = "dispose" => GridIndices = {}

(***************************************************************************)
(* C7: whenever floor(radius * pathScaleFactor) = 0 the resolved pathWidth *)
(* is the constant 2, and under the same zero test arenaRadius and         *)
(* baseRadius are radius*0.5 and radius*0.3.                               *)
(***************************************************************************)
C7_FallbackOnFloorZero ==
    hexGridRef.isSet =>
        LET radius == props.gridRadius
        IN  /\ Floor(radius * props.pathScaleFactor) = 0 => resolved.pathWidth = 2
            /\ Floor(radius * props.arenaScaleFactor) = 0
                 => resolved.arenaRadius * Scale = radius * ArenaFallback
            /\ Floor(radius * props.baseScaleFactor) = 0
                 => resolved.baseRadius * Scale = radius * BaseFallback

(***************************************************************************)
(* C7, amended: whenever the product radius * pathScaleFactor is exactly 0 *)
(* the resolved pathWidth is the constant 2, and under the same test on    *)
(* their products arenaRadius and baseRadius are floor(radius*0.5) and     *)
(* floor(radius*0.3).                                                      *)
(***************************************************************************)
C7_FallbackOnZeroProduct ==
    hexGridRef.isSet =>
        LET radius == props.gridRadius
        IN  /\ radius * props.pathScaleFactor = 0 => resolved.pathWidth = 2
            /\ radius * props.arenaScaleFactor = 0
                 => resolved.arenaRadius = (radius * 50) \div 100
            /\ radius * props.baseScaleFactor = 0
                 => resolved.baseRadius = (radius * 30) \div 100

C7_Witness ==
    /\ hexGridRef.isSet
    /\ props.gridRadius = 4
    /\ props.pathScaleFactor = 0 /\ props.arenaScaleFactor = 0 /\ props.baseScaleFactor = 0
    /\ resolved.pathWidth = 2 /\ resolved.arenaRadius = 2 /\ resolved.baseRadius = 1

(***************************************************************************)
(* C8: the fallback of arenaRadius, baseRadius and pathWidth is taken if   *)
(* and only if the product radius * factor is exactly zero; for a product  *)
(* with 0 < radius * factor < 1 the resolved value is floor(product) = 0.  *)
(***************************************************************************)
C8_FallbackOnlyOnExactZero ==
    hexGridRef.isSet =>
        LET radius == props.gridRadius
            law(value, product, fallback) ==
                /\ product # 0 => value = product \div 100
                /\ (0 < product /\ product < 100) => value = 0
                /\ product = 0 => value = fallback \div 100
        IN  /\ law(resolved.pathWidth, radius * props.pathScaleFactor, 200)
            /\ law(resolved.arenaRadius, radius * props.arenaScaleFactor, radius * 50)
            /\ law(resolved.baseRadius, radius * props.baseScaleFactor, radius * 30)

C8_Witness ==
    /\ hexGridRef.isSet
    /\ props.gridRadius = 4
    /\ props.pathScaleFactor = 2 /\ props.arenaScaleFactor = 2 /\ props.baseScaleFactor = 2
    /\ resolved.pathWidth = 0 /\ resolved.arenaRadius = 0 /\ resolved.baseRadius = 0

C10_NoEmptyInstances ==
    \A i \in GridIndices :
        /\ scene[i].layer # "empty"
        /\ \A k \in 1..Len(scene[i].instances) : scene[i].instances[k].color # "mapColor"

(***************************************************************************)
(* C11: regenerate and dispose release only what a grid pass created:      *)
(* every scene object that no grid pass created, an InstancedMesh or a     *)
(* LineSegments of another component included, is still in the scene       *)
(* after the step.                                                         *)
(***************************************************************************)
ForeignKept ==
    \A i \in 1..Len(scene) :
        scene[i].owner = "other" => \E j \in 1..Len(scene') : scene'[j] = scene[i]

C11_ForeignObjectsKept ==
    [][lastOp' \in {"regenerate", "dispose"} => ForeignKept]_vars

(***************************************************************************)
(* C12: disposing while the grid owns no batch is a no-op: it raises no    *)
(* error and leaves the scene as it was, with still no batch of the grid   *)
(* in it.                                                                  *)
(***************************************************************************)
C12_DisposeOfNothingIsNoOp ==
    [][(lastOp' = "dispose" /\ GridIndices = {}) =>
           /\ scene' = scene
           /\ error' = NoError]_vars

(***************************************************************************)
(* C13: generation with a malformed configuration (here a negative radius) *)
(* fails with InvalidConfig and produces no batch.                         *)
(***************************************************************************)
C13_MalformedConfigFails ==
    (lastOp = "mount" /\ props.gridRadius < 0) =>
        /\ error = "InvalidConfig"
        /\ GridIndices = {}

(***************************************************************************)
(* C14: every border colour is, channel by channel, the plain linear       *)
(* interpolation C*(1 - |f|) + T*|f| of the fill colour C it was computed  *)
(* from, f the border colour factor and the target T black (0) when f < 0  *)
(* and white (1) otherwise.  So f = 0 gives the fill colour, f = -1 black, *)
(* f = 1 white, and f = 0.5 gives 0.5*C + 0.5.  (Channels are in units of  *)
(* 1/ChannelScale, factors in units of 1/Scale and border channels in      *)
(* units of 1/(ChannelScale*Scale).)                                       *)
(***************************************************************************)
BorderEntries ==
    UNION {{scene[i].borderColors[k] : k \in 1..Len(scene[i].borderColors)} :
              i \in GridIndices}

C14_BorderIsLinearBlend ==
    hexGridRef.isSet =>
        LET f == props.borderColorFactor
            T == IF f < 0 THEN 0 ELSE ChannelScale
        IN  \A e \in BorderEntries :
                LET C == ColorValue(e.fill)
                    channels == {<<C.r, e.color.r>>, <<C.g, e.color.g>>, <<C.b, e.color.b>>}
                IN  \A ch \in channels :
                        /\ ch[2] = ch[1] * (Scale - Abs(f)) + T * Abs(f)
                        /\ f = 0 => ch[2] = ch[1] * Scale
                        /\ f = -Scale => ch[2] = 0
                        /\ f = Scale => ch[2] = ChannelScale * Scale
                        /\ f = 50 => 2 * ch[2] = ch[1] * Scale + ChannelScale * Scale

C14_Witness ==
    /\ hexGridRef.isSet
    /\ props.borderColorFactor = 50
    /\ \E e \in BorderEntries : e.fill = "baseColors1" /\ e.color = Color(50000, 100000, 50000)
    /\ \E e \in BorderEntries : e.fill = "pathColor"

(***************************************************************************)
(* C15: a pass produces exactly one batch for every non-empty group of     *)
(* cells, the groups being Base of anchor 0, Base of anchor 1, Base of     *)
(* anchor 2, Arena and Path: no batch for a group without cells, the       *)
(* instances of a batch are the cells of its group, and cells of           *)
(* different base anchors are never in the same batch.                     *)
(***************************************************************************)
\* the fill colours that tell the five groups apart
GroupColors == {"baseColors0", "baseColors1", "baseColors2", "arenaColor", "pathColor"}

\* the cells of the last pass whose fill colour is color
GroupCells(color) ==
    SelectSeq(LayerCells("bases") \o LayerCells("arena") \o LayerCells("paths"),
              LAMBDA cell : cell.color = color)

C15_OneBatchPerGroup ==
    hexGridRef.isSet =>
        /\ \A i \in CellMeshIndices :
               \A k, l \in 1..Len(scene[i].instances) :
                   scene[i].instances[k].color = scene[i].instances[l].color
        /\ \A color \in GroupColors :
               Cardinality({i \in CellMeshIndices : scene[i].instances = GroupCells(color)})
                   = IF Len(GroupCells(color)) = 0 THEN 0 ELSE 1
        /\ Cardinality(CellMeshIndices)
               = Cardinality({color \in GroupColors : Len(GroupCells(color)) > 0})

(***************************************************************************)
(* C16: every instance of a batch carries the fill colour of its region:   *)
(* a cell classified Base of anchor i has baseColors[i], i counted in the  *)
(* fixed anchor order, an Arena cell has arenaColor and a Path cell has    *)
(* pathColor.  (The border mesh of part_001 carries the border colours.)   *)
(***************************************************************************)
\* the three anchors in their fixed order
Anchors(radius) ==
    <<[q |-> radius, r |-> -radius], [q |-> -radius, r |-> 0], [q |-> 0, r |-> radius]>>

\* the indices (from 0) of the anchors the cell is within baseRadius of
QualifyingAnchors(c, R) ==
    {i \in 0..2 : HexDist(c.q - Anchors(R.radius)[i + 1].q,
                          c.r - Anchors(R.radius)[i + 1].r) <= R.baseRadius}

\* the least element of a non-empty set of integers
Least(S) == CHOOSE i \in S : \A j \in S : i <= j

C16_InstancesCarryRegionColor ==
    hexGridRef.isSet =>
        \A i \in CellMeshIndices :
            \A k \in 1..Len(scene[i].instances) :
                LET cell == scene[i].instances[k]
                    fill == ColorValue(cell.color)
                    anchor == Least(QualifyingAnchors(cell, resolved))
                IN  /\ scene[i].layer = "bases" =>
                           /\ QualifyingAnchors(cell, resolved) # {}
                           /\ cell.color = baseColors[anchor + 1]
                           /\ fill = [r |-> IF anchor = 0 THEN ChannelScale ELSE 0,
                                      g |-> IF anchor = 1 THEN ChannelScale ELSE 0,
                                      b |-> IF anchor = 2 THEN ChannelScale ELSE 0]
                           /\ scene[i].baseIndex \in {-1, anchor}
                    /\ scene[i].layer = "arena" =>
                           cell.color = "arenaColor" /\ fill = Color(ChannelScale, ChannelScale, 0)
                    /\ scene[i].layer = "paths" =>
                           cell.color = "pathColor" /\ fill = White

C16_Witness ==
    /\ hexGridRef.isSet
    /\ \A color \in {"baseColors0", "baseColors1", "baseColors2", "arenaColor", "pathColor"} :
           \E i \in CellMeshIndices :
               \E k \in 1..Len(scene[i].instances) : scene[i].instances[k].color = color

BaseCellsAt(c) ==
    {LayerCells("bases")[k] : k \in {n \in 1..Len(LayerCells("bases")) :
                                        /\ LayerCells("bases")[n].q = c.q
                                        /\ LayerCells("bases")[n].r = c.r}}

C18_LowestAnchorWins ==
    hexGridRef.isSet =>
        \A c \in HexRange(resolved.radius) :
            Cardinality(QualifyingAnchors(c, resolved)) > 1 =>
                /\ resolved.baseRadius >= resolved.radius
                /\ Cardinality(BaseCellsAt(c)) = 1
                /\ \A cell \in BaseCellsAt(c) :
                       /\ cell.color = baseColors[Least(QualifyingAnchors(c, resolved)) + 1]
                       /\ revision = "part_002" =>
                              cell.baseIndex = Least(QualifyingAnchors(c, resolved))

C18_Witness ==
    /\ hexGridRef.isSet
    /\ resolved.radius >= 2
    /\ \E c \in HexRange(resolved.radius) :
           /\ QualifyingAnchors(c, resolved) = {1, 2}
           /\ \E cell \in BaseCellsAt(c) : cell.color = "baseColors1"
    /\ \E c \in HexRange(resolved.radius) : QualifyingAnchors(c, resolved) = {0, 1, 2}

(***************************************************************************)
(* C19: a cell within baseRadius of no anchor is Arena exactly when its    *)
(* hex distance to the origin is at most arenaRadius; otherwise it is Path *)
(* exactly when its hex distance to at least one walked point of the three *)
(* anchor walks is at most pathWidth; otherwise it is Empty.               *)
(***************************************************************************)
\* the steps of the three walks, in the order of the anchors
Steps == <<[dq |-> -1, dr |-> 1], [dq |-> 1, dr |-> 0], [dq |-> 0, dr |-> -1]>>

\* the points anchor + k * step, k in 0..radius-1, of the three walks
WalkPointSet(radius) ==
    {[q |-> Anchors(radius)[i].q + k * Steps[i].dq,
      r |-> Anchors(radius)[i].r + k * Steps[i].dr] : i \in 1..3, k \in 0..(radius - 1)}

C19_ArenaThenPathThenEmpty ==
    hexGridRef.isSet =>
        \A c \in HexRange(resolved.radius) :
            QualifyingAnchors(c, resolved) = {} =>
                LET inArena == HexDist(c.q, c.r) <= resolved.arenaRadius
                    onPath == \E p \in WalkPointSet(resolved.radius) :
                                  HexDist(c.q - p.q, c.r - p.r) <= resolved.pathWidth
                IN  /\ c \in Coords(LayerCells("arena")) <=> inArena
                    /\ c \in Coords(LayerCells("paths")) <=> (~inArena /\ onPath)
                    /\ c \notin Placed \/ c \in Coords(LayerCells("empty"))
                           <=> (~inArena /\ ~onPath)
                    /\ c \notin Coords(LayerCells("bases"))

C19_Witness ==
    /\ hexGridRef.isSet
    /\ resolved.radius >= 3
    /\ resolved.pathWidth >= 1
    /\ \E c \in Coords(LayerCells("arena")) :
           /\ QualifyingAnchors(c, resolved) = {}
           /\ c \in WalkPointSet(resolved.radius)
    /\ \E c \in Coords(LayerCells("paths")) : c \notin WalkPointSet(resolved.radius)
    /\ \E c \in HexRange(resolved.radius) :
           /\ QualifyingAnchors(c, resolved) = {}
           /\ HexDist(c.q, c.r) > resolved.arenaRadius
           /\ c \notin Coords(LayerCells("paths"))

(***************************************************************************)
(* C20: for every radius >= 0 the walk of each anchor terminates: it       *)
(* visits exactly the radius points anchor + k * step, k = 0..radius-1,    *)
(* in this order, stops when it reaches the origin and never tests the     *)
(* origin; for radius 0 it visits no point.  A cell is on a path exactly   *)
(* when it is within pathWidth of one of these points.                     *)
(***************************************************************************)
\* the points the loop visits for the i-th path of the last pass
Walk(i) ==
    LET path == paths(resolved.radius)[i]
    IN  WalkedPoints(path, path.start.q, path.start.r, resolved.radius)

C20_WalkVisitsRadiusPoints ==
    (hexGridRef.isSet /\ resolved.radius >= 0) =>
        /\ \A i \in 1..3 :
               /\ Len(Walk(i)) = resolved.radius
               /\ \A k \in 0..(resolved.radius - 1) :
                      Walk(i)[k + 1] = [q |-> Anchors(resolved.radius)[i].q + k * Steps[i].dq,
                                        r |-> Anchors(resolved.radius)[i].r + k * Steps[i].dr]
               /\ \A n \in 1..Len(Walk(i)) : Walk(i)[n] # [q |-> 0, r |-> 0]
               /\ resolved.radius > 0 =>
                      /\ Walk(i)[resolved.radius].q + Steps[i].dq = 0
                      /\ Walk(i)[resolved.radius].r + Steps[i].dr = 0
        /\ \A c \in HexRange(resolved.radius) :
               isOnPath(c.q, c.r, resolved)
                   <=> \E i \in 1..3 : \E n \in 1..Len(Walk(i)) :
                           HexDist(c.q - Walk(i)[n].q, c.r - Walk(i)[n].r) <= resolved.pathWidth

C20_Witness ==
    /\ hexGridRef.isSet
    /\ resolved.radius = MaxGenRadius
    /\ Len(Walk(1)) = MaxGenRadius
    /\ Walk(2)[MaxGenRadius] = [q |-> -1, r |-> 0]
    /\ resolved.pathWidth = 0
    /\ [q |-> 0, r |-> 0] \notin Coords(LayerCells("paths"))

(***************************************************************************)
(* C21: every geometry and material a pass constructed is disposed by the  *)
(* next regenerate, the templates of groups without cells and the ones no  *)
(* mesh holds included: after a regenerate nothing is left undisposed that *)
(* was constructed before the regenerate began.  (The regenerate itself    *)
(* makes two passes, the rebuild of its cleanup and the run for the new    *)
(* configuration.)                                                         *)
(***************************************************************************)
C21_PassResourcesReleased ==
    lastOp = "regenerate" => \A x \in live : x.age < 2

(***************************************************************************)
(* C22: after any sequence of configuration changes the scene holds grid   *)
(* batches of at most two configurations, the current one and the one      *)
(* before it, and their number does not grow with the number of changes:   *)
(* every grid batch was built by one of the last two passes, for the       *)
(* current or the preceding configuration, and no pass is in the scene     *)
(* twice.                                                                  *)
(***************************************************************************)
C22_AtMostTwoConfigurations ==
    /\ \A i \in GridIndices :
           /\ scene[i].age <= 1
           /\ scene[i].cfg \in {props, prev}
           /\ scene[i].age = 0 => scene[i].cfg = props
    /\ \A i, j \in GridIndices :
           (/\ i # j
            /\ scene[i].age = scene[j].age
            /\ scene[i].layer = scene[j].layer) =>
               \/ scene[i].part # scene[j].part
               \/ scene[i].baseIndex # scene[j].baseIndex
    /\ Cardinality({scene[i].cfg : i \in GridIndices}) <= 2

C22_Witness ==
    /\ lastOp = "regenerate"
    /\ props # prev
    /\ \E x \in live : x.age = 2
    /\ \E i, j \in GridIndices : scene[i].cfg = props /\ scene[j].cfg = prev
    /\ Cardinality({scene[i].cfg : i \in GridIndices}) = 2

(***************************************************************************)
(* C23: for every radius >= 1 and resolved baseRadius, arenaRadius and     *)
(* pathWidth all >= 0, no cell on the straight line from an anchor to the  *)
(* origin, anchor + k * step for 0 <= k <= radius, is classified Empty:    *)
(* every such cell is Base, Path or Arena.                                 *)
(***************************************************************************)
\* the cells anchor + k * step, k in 0..radius, of the three lines
LinePointSet(radius) ==
    {[q |-> Anchors(radius)[i].q + k * Steps[i].dq,
      r |-> Anchors(radius)[i].r + k * Steps[i].dr] : i \in 1..3, k \in 0..radius}

C23_NoEmptyOnAnchorLines ==
    (/\ hexGridRef.isSet
     /\ resolved.radius >= 1
     /\ resolved.baseRadius >= 0
     /\ resolved.arenaRadius >= 0
     /\ resolved.pathWidth >= 0) =>
        \A c \in LinePointSet(resolved.radius) :
            /\ c \in Coords(LayerCells("bases")) \cup Coords(LayerCells("arena"))
                       \cup Coords(LayerCells("paths"))
            /\ c \notin Coords(LayerCells("empty"))

C23_Witness ==
    /\ hexGridRef.isSet
    /\ resolved.radius >= 3
    /\ resolved.baseRadius = 0 /\ resolved.arenaRadius = 0 /\ resolved.pathWidth = 0
    /\ Coords(LayerCells("paths"))
           = LinePointSet(resolved.radius)
                 \ (HexRange(0) \cup {Anchors(resolved.radius)[i] : i \in 1..3})
    /\ \E c \in HexRange(resolved.radius) :
           c \notin Placed \/ c \in Coords(LayerCells("empty"))

(***************************************************************************)
(* C24: when the base regions do not overlap (0 <= baseRadius < radius),   *)
(* classification is symmetric under the rotation by 120 degrees           *)
(* (q, r) -> (r, -q-r): a cell is Arena, Path or Empty exactly when its    *)
(* image is, and it is Base of anchor i exactly when its image is Base of  *)
(* anchor (i+1) mod 3.  So the three bases have equally many cells.        *)
(***************************************************************************)
Rotate(c) == [q |-> c.r, r |-> -c.q - c.r]

\* the region the last pass gave the cell at c: the fill colour of the cell,
\* mapColor also for a cell that part_002 put in no layer
RegionColor(c) ==
    LET all == LayerCells("bases") \o LayerCells("arena") \o LayerCells("paths")
        at == {k \in 1..Len(all) : all[k].q = c.q /\ all[k].r = c.r}
    IN  IF at = {} THEN "mapColor" ELSE all[CHOOSE k \in at : TRUE].color

\* the fill colour of the region a rotation by 120 degrees turns a region into
RotatedColor(color) ==
    CASE color = "baseColors0" -> "baseColors1"
      [] color = "baseColors1" -> "baseColors2"
      [] color = "baseColors2" -> "baseColors0"
      [] OTHER -> color

C24_RotationSymmetry ==
    (/\ hexGridRef.isSet
     /\ 0 <= resolved.baseRadius
     /\ resolved.baseRadius < resolved.radius) =>
        /\ \A c \in HexRange(resolved.radius) :
               /\ Rotate(c) \in HexRange(resolved.radius)
               /\ RegionColor(Rotate(c)) = RotatedColor(RegionColor(c))
        /\ Len(GroupCells("baseColors0")) = Len(GroupCells("baseColors1"))
        /\ Len(GroupCells("baseColors1")) = Len(GroupCells("baseColors2"))

C24_Witness ==
    /\ hexGridRef.isSet
    /\ resolved.radius >= 3
    /\ resolved.baseRadius = 1
    /\ resolved.pathWidth = 0 /\ resolved.arenaRadius = 0
    /\ Len(GroupCells("baseColors0")) = 4
    /\ Len(GroupCells("baseColors2")) = 4
    /\ RegionColor([q |-> -1, r |-> 0]) = "pathColor"
    /\ RegionColor(Rotate([q |-> -1, r |-> 0])) = "pathColor"
    /\ RegionColor([q |-> 1, r |-> 1]) = "mapColor"

(***************************************************************************)
(* C25: for every configuration the control panel can deliver (gridRadius  *)
(* 5..50, baseScaleFactor and arenaScaleFactor 0.1..0.5, pathScaleFactor   *)
(* 0.01..0.1) no fallback fires: each resolved value is                    *)
(* floor(radius * factor).  So pathWidth is 0 whenever                     *)
(* radius * pathScaleFactor < 1, and baseRadius < radius, so that no two   *)
(* base regions overlap.                                                   *)
(***************************************************************************)
C25_NoFallbackInGuiRange ==
    lastOp = "resolve" =>
        /\ resolved.radius = props.gridRadius
        /\ resolved.arenaRadius = (props.gridRadius * props.arenaScaleFactor) \div Scale
        /\ resolved.baseRadius = (props.gridRadius * props.baseScaleFactor) \div Scale
        /\ resolved.pathWidth = (props.gridRadius * props.pathScaleFactor) \div Scale
        /\ props.gridRadius * props.pathScaleFactor < Scale => resolved.pathWidth = 0
        /\ resolved.baseRadius < resolved.radius
        /\ \A i, j \in 1..3 :
               i # j => HexDist(Anchors(resolved.radius)[i].q - Anchors(resolved.radius)[j].q,
                                Anchors(resolved.radius)[i].r - Anchors(resolved.radius)[j].r)
                            > 2 * resolved.baseRadius

C25_Witness ==
    /\ lastOp = "resolve"
    /\ props = Config(20, 25, 2, 30)
    /\ resolved = [radius |-> 20, arenaRadius |-> 6, baseRadius |-> 5, pathWidth |-> 0]

====
